---- MODULE Spec2Model ----
(***************************************************************************)
(* DeepLX-Worker: a Cloudflare Worker that proxies translation requests to *)
(* the DeepL JSON-RPC endpoint.  The repository holds two variants of the  *)
(* worker: src/index.js ("index") and src/unnamed/part_000 ("part_000").   *)
(* Both are modelled; env.impl says which one a behaviour runs.            *)
(*                                                                         *)
(* State: the deployment's environment (env), the shared response cache    *)
(* (caches.default), the cache writes handed to ctx.waitUntil that have    *)
(* not completed yet, the requests suspended at `await fetch(...)`, and    *)
(* the observation of the handler step that has just run.                  *)
(*                                                                         *)
(* Everything a handler does between two accesses to shared state is local *)
(* to the request, so one action covers the code from the worker's entry   *)
(* up to the cache lookup and the issue of the upstream call, and another  *)
(* the code from the upstream's reply to the response.                     *)
(***************************************************************************)
EXTENDS Integers, Sequences, FiniteSets, TLC

VARIABLES
    env,       \* [impl, TOKEN, DL_SESSION]: the variant deployed and its bindings
    workload,  \* the request shapes clients send to this deployment
    cache,     \* caches.default: a set of [key, entry, by], at most one per key
    pending,   \* cache.put promises given to ctx.waitUntil, not yet completed
    inflight,  \* the deeplxTranslate calls suspended at await fetch, oldest first
    last,      \* what the handler step that has just run saw and did (None once delivered)
    prev       \* the successful cached call delivered just before, if any

vars == <<env, workload, cache, pending, inflight, last, prev>>

----------------------------------------------------------------------------
(* Bounds of the model *)

MaxInFlight == 2   \* requests that may be suspended at the upstream call at once
MaxPending == 1    \* background cache writes that may be outstanding at once

----------------------------------------------------------------------------
(* JavaScript values *)

Undefined == "undefined"
Null == "null"

\* JS truthiness of a string-or-undefined-or-null value
Truthy(v) == v \notin {Undefined, Null, ""}

\* body.text is absent, a string, or an array of strings
TUndef == [t |-> "undefined"]
TStr(s) == [t |-> "string", s |-> s]
TArr(a) == [t |-> "array", a |-> a]

\* Array.prototype.join
RECURSIVE Join(_, _)
Join(arr, sep) ==
    IF arr = <<>> THEN ""
    ELSE IF Len(arr) = 1 THEN arr[1]
    ELSE arr[1] \o sep \o Join(Tail(arr), sep)

\* String.prototype.toUpperCase on the language codes of the model
ToUpperCase(s) ==
    CASE s = "de" -> "DE"
      [] s = "fr" -> "FR"
      [] s = "en" -> "EN"
      [] s = "auto" -> "AUTO"
      [] OTHER -> s

\* url.pathname.startsWith(prefix), on paths given as sequences of segments
StartsWith(path, prefix) ==
    /\ Len(path) >= Len(prefix)
    /\ SubSeq(path, 1, Len(prefix)) = prefix

PathRoot == <<>>
PathTranslate == <<"translate">>
PathV1 == <<"v1", "translate">>
PathV2 == <<"v2", "translate">>

----------------------------------------------------------------------------
(* Responses and the per-request trace *)

Resp(status, body) == [status |-> status, body |-> body]

NoResult == [code |-> 0]

\* What one request has done so far: whether its body was read, whether
\* deeplxTranslate was called, and how often it touched the cache and the upstream.
Trace0 ==
    [parsed |-> FALSE, called |-> FALSE, cacheReads |-> 0, cachePuts |-> 0, upstreamCalls |-> 0]

InvalidToken == Resp(401, [code |-> 401, message |-> "Invalid access token"])
InvalidJson == Resp(400, [code |-> 400, message |-> "Invalid JSON in request body"])
NotFound == Resp(404, [code |-> 404, message |-> "Not Found"])

\* The preflight answer of the entry point: no body, CORS headers only.
Preflight == Resp(200, [preflight |-> TRUE])

\* GET /: index.js answers without the repository field, part_000 with it.
RootInfo(impl) ==
    IF impl = "index"
    THEN Resp(200, [code |-> 200, message |-> "DeepLX-Worker"])
    ELSE Resp(200, [code |-> 200, message |-> "DeepLX-Worker",
                    repository |-> "https://github.com/OwO-Network/DeepLX"])

NoSession(impl) ==
    IF impl = "index"
    THEN Resp(401, [code |-> 401, message |-> "DL_SESSION is not configured."])
    ELSE Resp(401, [code |-> 401,
                    message |-> "DL_SESSION is not configured in worker environment."])

\* The catch of the entry point: an exception escaping handleRequest becomes a 500.
Fatal(impl) ==
    IF impl = "index"
    THEN Resp(500, [code |-> 500, message |-> "Worker threw a fatal exception"])
    ELSE Resp(500, [code |-> 500, message |-> "Worker threw an exception"])

----------------------------------------------------------------------------
(* Authentication *)

\* Variant: the scheme of the Authorization header is not looked at.
TokenInHeader_AnyScheme(parts) == IF Len(parts) = 2 THEN parts[2] ELSE ""

\* The token carried by an Authorization header, given as authHeader.split(' ')
\* (the empty sequence when the header is absent).
TokenInHeader(parts) ==
    IF Len(parts) = 2 /\ parts[1] \in {"Bearer", "DeepL-Auth-Key"} THEN parts[2] ELSE ""

\* TRUE when the authentication check answers 401.
AuthRejects(e, r) ==
    /\ Truthy(e.TOKEN)
    /\ r.token # e.TOKEN
    /\ TokenInHeader(r.auth) # e.TOKEN

----------------------------------------------------------------------------
(* The response cache *)

\* encodeURIComponent on the texts of the model: a newline and a comma are escaped,
\* letters are kept.
EncodeURIComponent(s) ==
    CASE s = "h\ni" -> "h%0Ai"
      [] s = "h,i" -> "h%2Ci"
      [] OTHER -> s

\* String(translateText), as the template literal applies it: an array is joined
\* with commas.
StringOf(text) ==
    CASE text.t = "array" -> Join(text.a, ",")
      [] text.t = "string" -> text.s
      [] OTHER -> Undefined

\* new Request(`https://deeplx.cache/${src}/${tgt}/${encodeURIComponent(text)}`)
CacheKey(finalSourceLang, finalTargetLang, translateText) ==
    "https://deeplx.cache/" \o finalSourceLang \o "/" \o finalTargetLang \o "/"
        \o EncodeURIComponent(StringOf(translateText))

\* cache.match(cacheKey): the entries stored under the key (none or one)
CacheMatch(c, key) == {x.entry : x \in {y \in c : y.key = key}}

\* cache.put(cacheKey, response): replaces what the key held.  p is the write:
\* [key, entry], and by, the request that registered it (kept for the record only,
\* cache.match never reads it).
CachePutInto(c, p) == {y \in c : y.key # p.key} \cup {p}

----------------------------------------------------------------------------
(* deeplxTranslate, up to the upstream call *)

\* Variant: only a missing text is refused, the empty string passes.
TextFalsy_MissingOnly(text) == text.t = "undefined"

\* !translateText: undefined and the empty string are falsy, an array never is
TextFalsy(text) == text.t = "undefined" \/ (text.t = "string" /\ text.s = "")

FinalSourceLang(sourceLang) ==
    IF ~Truthy(sourceLang) \/ sourceLang = "auto" THEN "EN" ELSE ToUpperCase(sourceLang)

Method(dlSession) == IF Truthy(dlSession) THEN "Pro" ELSE "Free"

\* Variant: the stored record is returned as it is.
Hit_AsStored(entry) == entry

\* result = await cachedResponse.json(); result.cached = true
Hit(entry) == [entry EXCEPT !.cached = TRUE]

\* What a call has computed before its cache lookup; NoCall when it did not get there.
NoCall ==
    [finalSourceLang |-> "", finalTargetLang |-> "", translateText |-> "",
     cacheKey |-> "", dlSession |-> "", useCache |-> FALSE]

\* The call from its entry to the first of: a return, an exception, the upstream
\* call.  tr is the request's trace so far, c the cache as cache.match finds it.
\*   "return": deeplxTranslate returned result
\*   "throw":  a TypeError left deeplxTranslate (targetLang.toUpperCase() on
\*             undefined; translateText.split on an array in getICount)
\*   "fetch":  the call is suspended at await fetch
DeeplxBegin(sourceLang, targetLang, translateText, dlSession, useCache, c, tr) ==
    LET t1 == [tr EXCEPT !.called = TRUE] IN
    IF TextFalsy(translateText)
    THEN [k |-> "return", trace |-> t1, call |-> NoCall,
          result |-> [code |-> 400, message |-> "No text to translate."]]
    ELSE IF targetLang = Undefined
    THEN [k |-> "throw", trace |-> t1, call |-> NoCall, result |-> NoResult]
    ELSE
      LET finalSourceLang == FinalSourceLang(sourceLang)
          finalTargetLang == ToUpperCase(targetLang)
          cacheKey == CacheKey(finalSourceLang, finalTargetLang, translateText)
          t2 == IF useCache THEN [t1 EXCEPT !.cacheReads = @ + 1] ELSE t1
          hit == IF useCache THEN CacheMatch(c, cacheKey) ELSE {}
          call == [finalSourceLang |-> finalSourceLang,
                   finalTargetLang |-> finalTargetLang,
                   translateText |-> StringOf(translateText),
                   cacheKey |-> cacheKey,
                   dlSession |-> dlSession,
                   useCache |-> useCache]
      IN
      IF hit # {}
      THEN [k |-> "return", trace |-> t2,
            result |-> Hit(CHOOSE x \in hit : TRUE),
            call |-> call]
      ELSE IF translateText.t # "string"
      THEN [k |-> "throw", trace |-> t2, call |-> call, result |-> NoResult]
      ELSE [k |-> "fetch", trace |-> [t2 EXCEPT !.upstreamCalls = @ + 1],
            call |-> call, result |-> NoResult]

----------------------------------------------------------------------------
(* deeplxTranslate, from the upstream's reply on *)

\* texts[0].alternatives?.map(alt => alt.text) || []
RECURSIVE MapText(_)
MapText(alts) ==
    IF alts = <<>> THEN <<>> ELSE <<alts[1].text>> \o MapText(Tail(alts))

Alternatives(item) == IF item.hasAlternatives THEN MapText(item.alternatives) ELSE <<>>

FinalResult(call, u) ==
    [code |-> 200,
     data |-> u.texts[1].text,
     alternatives |-> Alternatives(u.texts[1]),
     source_lang |-> u.lang,
     target_lang |-> call.finalTargetLang,
     method |-> Method(call.dlSession),
     cached |-> FALSE]

\* response.ok
Ok(status) == status \in 200..299

\* Variant: the first element's text is not tested (as in part_000).
ClassifyIndex_NoTextTest(call, u) ==
    IF u.fault
    THEN [k |-> "return", result |-> [code |-> 500, message |-> "An unexpected error occurred"]]
    ELSE IF u.status = 429
    THEN [k |-> "return", result |-> [code |-> 429, message |-> "Too many requests"]]
    ELSE IF ~Ok(u.status)
    THEN [k |-> "return", result |-> [code |-> u.status, message |-> "DeepL API error"]]
    ELSE IF ~u.json
    THEN [k |-> "return", result |-> [code |-> 500, message |-> "An unexpected error occurred"]]
    ELSE IF u.error
    THEN [k |-> "return", result |-> [code |-> 500, message |-> "DeepL API returned an error"]]
    ELSE IF ~u.hasTexts \/ Len(u.texts) = 0
    THEN [k |-> "return",
          result |-> [code |-> 500, message |-> "Translation failed, no text returned."]]
    ELSE [k |-> "return", result |-> FinalResult(call, u)]

\* index.js: every outcome of the upstream call is turned into a result; the
\* try/catch turns a rejected fetch and an unparsable body into a 500 result.
ClassifyIndex(call, u) ==
    IF u.fault
    THEN [k |-> "return", result |-> [code |-> 500, message |-> "An unexpected error occurred"]]
    ELSE IF u.status = 429
    THEN [k |-> "return", result |-> [code |-> 429, message |-> "Too many requests"]]
    ELSE IF ~Ok(u.status)
    THEN [k |-> "return", result |-> [code |-> u.status, message |-> "DeepL API error"]]
    ELSE IF ~u.json
    THEN [k |-> "return", result |-> [code |-> 500, message |-> "An unexpected error occurred"]]
    ELSE IF u.error
    THEN [k |-> "return", result |-> [code |-> 500, message |-> "DeepL API returned an error"]]
    ELSE IF ~u.hasTexts \/ Len(u.texts) = 0 \/ ~Truthy(u.texts[1].text)
    THEN [k |-> "return",
          result |-> [code |-> 500, message |-> "Translation failed, no text returned."]]
    ELSE [k |-> "return", result |-> FinalResult(call, u)]

\* part_000: no try/catch, the failures are thrown; a first element without text
\* is not checked for and gives a result whose data is undefined.
ClassifyPart(call, u) ==
    IF u.fault \/ u.status = 429 \/ ~Ok(u.status) \/ ~u.json \/ u.error
       \/ ~u.hasTexts \/ Len(u.texts) = 0
    THEN [k |-> "throw", result |-> NoResult]
    ELSE [k |-> "return", result |-> FinalResult(call, u)]

Classify(impl, call, u) ==
    IF impl = "index" THEN ClassifyIndex(call, u) ELSE ClassifyPart(call, u)

----------------------------------------------------------------------------
(* handleRequest *)

\* The route test of the API block.  index.js requires POST for the three
\* prefixes; in part_000 && binds tighter than ||, so POST is required for the
\* /translate prefix only.
IsApiRouteIndex(r) ==
    r.method = "POST" /\ (\/ StartsWith(r.path, PathTranslate)
                          \/ StartsWith(r.path, PathV1)
                          \/ StartsWith(r.path, PathV2))

IsApiRoutePart(r) ==
    \/ (r.method = "POST" /\ StartsWith(r.path, PathTranslate))
    \/ StartsWith(r.path, PathV1)
    \/ StartsWith(r.path, PathV2)

\* The branch taken inside the API block.  index.js ends in an else that takes
\* every remaining path as /v2/translate; part_000 tests each path and falls out
\* of the block when none matches.
EndpointIndex(path) ==
    CASE path = PathTranslate -> "translate"
      [] path = PathV1 -> "v1"
      [] OTHER -> "v2"

EndpointPart(path) ==
    CASE path = PathTranslate -> "translate"
      [] path = PathV1 -> "v1"
      [] path = PathV2 -> "v2"
      [] OTHER -> "none"

Endpoint(impl, path) == IF impl = "index" THEN EndpointIndex(path) ELSE EndpointPart(path)

IsPrivate(e) == e.TOKEN # Undefined /\ e.TOKEN # ""

\* Variant: the body's cache field is not looked at.
UseCache_IgnoresBody(e, body) == ~IsPrivate(e)

\* body.cache !== undefined ? body.cache : !isPrivate
UseCache(e, body) == IF body.cache # Undefined THEN body.cache = "true" ELSE ~IsPrivate(e)

\* Array.isArray(body.text) ? body.text.join('\n') : body.text
V2Text(text) == IF text.t = "array" THEN TStr(Join(text.a, "\n")) ELSE text

\* The last two statements of handleRequest: GET / and the 404 fallback.
FallThrough(impl, r) ==
    IF r.method = "GET" /\ r.path = PathRoot THEN RootInfo(impl) ELSE NotFound

Official(result) ==
    [translations |->
        <<[detected_source_language |-> result.source_lang, text |-> result.data]>>,
     cached |-> result.cached]

\* The response built from what deeplxTranslate returned.
RespondIndex(ep, r, result) ==
    IF ep = "v2" /\ result.code = 200
    THEN Resp(200, Official(result))
    ELSE Resp(IF result.code = 0 THEN 500 ELSE result.code, result)

\* part_000 has no response for a /v2/translate result that is not a success: the
\* block is left and the request reaches GET / and the 404 fallback.
RespondPart(ep, r, result) ==
    IF ep = "v2"
    THEN IF result.code = 200 THEN Resp(200, Official(result)) ELSE FallThrough("part_000", r)
    ELSE Resp(result.code, result)

Respond(impl, ep, r, result) ==
    IF impl = "index" THEN RespondIndex(ep, r, result) ELSE RespondPart(ep, r, result)

Answer(response, result, tr, ep) ==
    [k |-> "response", response |-> response, result |-> result, trace |-> tr,
     ep |-> ep, call |-> NoCall]

\* From a deeplxTranslate call that returned, threw or was suspended to the
\* outcome of the handler step.  An exception leaves handleRequest and is caught
\* by the entry point.
AfterCall(impl, ep, r, d) ==
    CASE d.k = "return" ->
            [Answer(Respond(impl, ep, r, d.result), d.result, d.trace, ep)
                EXCEPT !.call = d.call]
      [] d.k = "throw" -> [Answer(Fatal(impl), NoResult, d.trace, ep) EXCEPT !.call = d.call]
      [] OTHER ->
            [k |-> "fetch", response |-> Resp(0, NoResult), result |-> NoResult,
             trace |-> d.trace, ep |-> ep, call |-> d.call]

\* Variant: the test is for undefined, which `env.DL_SESSION || ''` never is.
SessionMissing_Undefined(dlSession) == dlSession = Undefined

\* if (!dlSession)
SessionMissing(dlSession) == ~Truthy(dlSession)

\* The API block after authentication: body parse, cache policy, dispatch.
ApiBlock(e, r, c) ==
    LET tr == [Trace0 EXCEPT !.parsed = TRUE]
        body == r.body
        ep == Endpoint(e.impl, r.path)
    IN
    IF body.kind \in {"empty", "badjson"}
    THEN Answer(InvalidJson, NoResult, tr, "none")
    ELSE IF body.kind = "null"
    THEN Answer(Fatal(e.impl), NoResult, tr, "none")
    ELSE
      LET useCache == UseCache(e, body) IN
      CASE ep = "translate" ->
              AfterCall(e.impl, ep, r,
                  DeeplxBegin(body.source_lang, body.target_lang, body.text, "",
                              useCache, c, tr))
        [] ep = "v1" ->
              LET dlSession == IF Truthy(e.DL_SESSION) THEN e.DL_SESSION ELSE "" IN
              IF SessionMissing(dlSession)
              THEN Answer(NoSession(e.impl), NoResult, tr, ep)
              ELSE AfterCall(e.impl, ep, r,
                      DeeplxBegin(body.source_lang, body.target_lang, body.text,
                                  dlSession, useCache, c, tr))
        [] ep = "v2" ->
              AfterCall(e.impl, ep, r,
                  DeeplxBegin("auto", body.target_lang, V2Text(body.text), "",
                              useCache, c, tr))
        [] OTHER -> Answer(FallThrough(e.impl, r), NoResult, tr, ep)

\* index.js: authentication first, for every request; then the routes.
HandleRequestIndex(e, r, c) ==
    IF AuthRejects(e, r)
    THEN Answer(InvalidToken, NoResult, Trace0, "none")
    ELSE IF IsApiRouteIndex(r)
    THEN ApiBlock(e, r, c)
    ELSE Answer(FallThrough(e.impl, r), NoResult, Trace0, "none")

\* part_000: authentication inside the API block only.
HandleRequestPart(e, r, c) ==
    IF IsApiRoutePart(r)
    THEN IF AuthRejects(e, r)
         THEN Answer(InvalidToken, NoResult, Trace0, "none")
         ELSE ApiBlock(e, r, c)
    ELSE Answer(FallThrough(e.impl, r), NoResult, Trace0, "none")

HandleRequest(e, r, c) ==
    IF e.impl = "index" THEN HandleRequestIndex(e, r, c) ELSE HandleRequestPart(e, r, c)

\* export default fetch: the preflight answer, else handleRequest.
Fetch(e, r, c) ==
    IF r.method = "OPTIONS"
    THEN Answer(Preflight, NoResult, Trace0, "none")
    ELSE HandleRequest(e, r, c)

----------------------------------------------------------------------------
(* Inputs: deployments, requests, upstream replies *)

Secret == "s3cret"

Envs ==
    [impl : {"index", "part_000"}, TOKEN : {Undefined, Secret}, DL_SESSION : {Undefined, "sess"}]

Paths == {PathRoot, PathTranslate, PathV1, PathV2, <<"translate", "x">>, <<"other">>}

\* (token query parameter, Authorization header split at the blank)
Credentials ==
    {<<Null, <<>>>>, <<Secret, <<>>>>, <<"wrong", <<>>>>,
     <<Null, <<"Bearer", Secret>>>>, <<Null, <<"DeepL-Auth-Key", Secret>>>>,
     <<Null, <<"Basic", Secret>>>>, <<Null, <<"Bearer", "wrong">>>>}

NoBody == [kind |-> "empty", source_lang |-> Undefined, target_lang |-> Undefined,
           text |-> TUndef, cache |-> Undefined]

Texts == {TUndef, TStr(""), TStr("hi"), TArr(<<>>), TArr(<<"">>), TArr(<<"h", "i">>)}

ObjectBodies ==
    [kind : {"object"}, source_lang : {Undefined, "auto", "de"},
     target_lang : {Undefined, "fr"}, text : Texts, cache : {Undefined, "true", "false"}]

Bodies ==
    {NoBody, [NoBody EXCEPT !.kind = "badjson"], [NoBody EXCEPT !.kind = "null"]}
        \cup ObjectBodies

Request(method, path, cred, body) ==
    [method |-> method, path |-> path, token |-> cred[1], auth |-> cred[2], body |-> body]

\* A well-formed body: translate "hi" into French.
PlainBody ==
    [kind |-> "object", source_lang |-> Undefined, target_lang |-> "fr",
     text |-> TStr("hi"), cache |-> Undefined]

\* Every credential on every route (GET and OPTIONS requests carry no body), and
\* every body on every route, without a credential and with the secret.
Requests ==
    {Request(m, p, c, NoBody) : m \in {"GET", "OPTIONS"}, p \in Paths, c \in Credentials}
        \cup {Request(m, p, c, PlainBody) : m \in {"POST", "PUT"}, p \in Paths,
                                            c \in Credentials}
        \cup {Request(m, p, c, b) : m \in {"POST", "PUT"}, p \in Paths,
                                    c \in {<<Null, <<>>>>, <<Secret, <<>>>>}, b \in Bodies}

\* The request shapes that are combined in a workload of two: well-formed calls of
\* the three endpoints for the same text, with the deployment's secret.
PairRequests ==
    {Request("POST", p, <<Secret, <<>>>>, [PlainBody EXCEPT !.cache = ca]) :
        p \in {PathTranslate, PathV1, PathV2}, ca \in {Undefined, "true"}}

Workloads == {{r} : r \in Requests} \cup {{r1, r2} : r1 \in PairRequests, r2 \in PairRequests}

Item(text, hasAlternatives, alternatives) ==
    [text |-> text, hasAlternatives |-> hasAlternatives, alternatives |-> alternatives]

Reply(fault, status, json, error, hasTexts, texts, lang) ==
    [fault |-> fault, status |-> status, json |-> json, error |-> error,
     hasTexts |-> hasTexts, texts |-> texts, lang |-> lang]

NoReply == Reply(FALSE, 0, FALSE, FALSE, FALSE, <<>>, "")

\* What the single upstream call can come back with.
Replies ==
    {Reply(TRUE, 0, FALSE, FALSE, FALSE, <<>>, ""),          \* fetch rejects
     Reply(FALSE, 429, FALSE, FALSE, FALSE, <<>>, ""),
     Reply(FALSE, 403, FALSE, FALSE, FALSE, <<>>, ""),
     Reply(FALSE, 503, FALSE, FALSE, FALSE, <<>>, ""),
     Reply(FALSE, 200, FALSE, FALSE, FALSE, <<>>, ""),       \* body is no JSON
     Reply(FALSE, 200, TRUE, TRUE, FALSE, <<>>, ""),         \* {error: {...}}
     Reply(FALSE, 200, TRUE, FALSE, FALSE, <<>>, ""),        \* no result.texts
     Reply(FALSE, 200, TRUE, FALSE, TRUE, <<>>, "EN"),       \* texts: []
     Reply(FALSE, 200, TRUE, FALSE, TRUE, <<Item(Undefined, FALSE, <<>>)>>, "EN"),
     Reply(FALSE, 200, TRUE, FALSE, TRUE, <<Item("t1", FALSE, <<>>)>>, "EN"),
     Reply(FALSE, 200, TRUE, FALSE, TRUE,
           <<Item("t2", TRUE, <<[text |-> "a1"], [text |-> "a2"]>>)>>, "DE")}

----------------------------------------------------------------------------
(* The state machine *)

None == [k |-> "none"]
NoPrev == [k |-> "none"]

Init ==
    /\ env \in Envs
    /\ workload \in Workloads
    /\ cache = {}
    /\ pending = {}
    /\ inflight = <<>>
    /\ last = None
    /\ prev = NoPrev

\* The observation of a handler step.
\* after is the call that had been delivered just before the step, if any.
Observe(o, r, step, u, after) ==
    [k |-> o.k, step |-> step, req |-> r, ep |-> o.ep, call |-> o.call, upstream |-> u,
     result |-> o.result, response |-> o.response, trace |-> o.trace, after |-> after]

\* A request arrives and runs until it is answered or suspended at the upstream call.
Receive(r) ==
    /\ last = None
    /\ LET o == Fetch(env, r, cache) IN
        /\ last' = Observe(o, r, "receive", NoReply, prev)
        /\ IF o.k = "fetch"
           THEN /\ Len(inflight) < MaxInFlight
                /\ inflight' = Append(inflight,
                        [req |-> r, ep |-> o.ep, call |-> o.call, trace |-> o.trace])
           ELSE inflight' = inflight
    /\ prev' = NoPrev
    /\ UNCHANGED <<env, workload, cache, pending>>

\* Variant: every success is written to the cache.
ShouldPut_EverySuccess(call, d) == d.k = "return" /\ d.result.code = 200

\* if (useCache) after a finalResult was built
ShouldPut(call, d) == d.k = "return" /\ d.result.code = 200 /\ call.useCache

\* The upstream answers a suspended call; the call classifies the answer, hands
\* the cache write to ctx.waitUntil and returns; the handler builds the response.
UpstreamReply(s, u) ==
    /\ last = None
    /\ s \in 1..Len(inflight)
    /\ LET f == inflight[s]
           d == Classify(env.impl, f.call, u)
           put == ShouldPut(f.call, d)
           tr == IF put THEN [f.trace EXCEPT !.cachePuts = @ + 1] ELSE f.trace
           o == AfterCall(env.impl, f.ep, f.req,
                          [k |-> d.k, result |-> d.result, trace |-> tr, call |-> f.call])
       IN
        /\ put => Cardinality(pending) < MaxPending
        /\ pending' = IF put
                      THEN pending \cup {[key |-> f.call.cacheKey, entry |-> d.result,
                                           by |-> [f EXCEPT !.trace = tr]]}
                      ELSE pending
        /\ last' = Observe(o, f.req, "reply", u, NoPrev)
    /\ inflight' = SubSeq(inflight, 1, s - 1) \o SubSeq(inflight, s + 1, Len(inflight))
    /\ prev' = NoPrev
    /\ UNCHANGED <<env, workload, cache>>

\* A background cache.put completes.
CachePut(p) ==
    /\ last = None
    /\ p \in pending
    /\ cache' = CachePutInto(cache, p)
    /\ pending' = pending \ {p}
    /\ UNCHANGED <<env, workload, inflight, last, prev>>

\* An entry's max-age of 3600 seconds has passed.
Expire(x) ==
    /\ last = None
    /\ x \in cache
    /\ cache' = cache \ {x}
    /\ prev' = NoPrev
    /\ UNCHANGED <<env, workload, pending, inflight, last>>

\* The entry point adds the CORS headers and the response leaves the worker.
Deliver ==
    /\ last # None
    /\ last' = None
    /\ prev' = IF last.k = "response" /\ last.result.code = 200 /\ last.call.useCache
               THEN [k |-> "call", call |-> last.call, result |-> last.result]
               ELSE NoPrev
    /\ UNCHANGED <<env, workload, cache, pending, inflight>>

Next ==
    \/ \E r \in workload : Receive(r)
    \/ \E s \in 1..MaxInFlight, u \in Replies : UpstreamReply(s, u)
    \/ \E p \in pending : CachePut(p)
    \/ \E x \in cache : Expire(x)
    \/ Deliver

Spec == Init /\ [][Next]_vars

----------------------------------------------------------------------------
(* Properties *)

\* A handler step has just run on a request that arrived in it.
Received == last # None /\ last.step = "receive"

\* The upstream has just answered and the suspended request has been completed.
Replied == last # None /\ last.step = "reply"

TranslatePaths == {PathTranslate, PathV1, PathV2}

\* The request presents the deployment's secret in one of the documented ways.
PresentsSecret(r) ==
    \/ r.token = env.TOKEN
    \/ r.auth = <<"Bearer", env.TOKEN>>
    \/ r.auth = <<"DeepL-Auth-Key", env.TOKEN>>

Untouched(tr) ==
    ~tr.parsed /\ ~tr.called /\ tr.cacheReads = 0 /\ tr.cachePuts = 0 /\ tr.upstreamCalls = 0

\* C1: with a shared secret configured, a request to /translate, /v1/translate or
\* /v2/translate that presents the secret neither as the token query parameter nor
\* as a Bearer or DeepL-Auth-Key Authorization header has its body left unread and
\* reaches neither the cache nor the upstream; sent with POST, it is answered 401
\* {code: 401, message: "Invalid access token"}.
C1_UnauthorizedIs401 ==
    (/\ Received
     /\ env.TOKEN = Secret
     /\ last.req.path \in TranslatePaths
     /\ ~PresentsSecret(last.req))
    => /\ last.k = "response"
       /\ Untouched(last.trace)
       /\ last.req.method = "POST" =>
            last.response = Resp(401, [code |-> 401, message |-> "Invalid access token"])

\* A POST to /v1/translate carrying the secret under the Basic scheme is turned away.
C1_Witness ==
    /\ Received
    /\ env.TOKEN = Secret
    /\ last.req.method = "POST"
    /\ last.req.path = PathV1
    /\ last.req.auth = <<"Basic", Secret>>
    /\ last.req.body.kind = "object"
    /\ last.response.status = 401

\* The answer of /v1/translate on a deployment without DL_SESSION.
IsNoSessionAnswer(response) ==
    /\ response.status = 401
    /\ response.body.code = 401
    /\ response.body.message \in {"DL_SESSION is not configured.",
                                  "DL_SESSION is not configured in worker environment."}

\* POST /v1/translate arrived at a deployment that has no DL_SESSION.
V1WithoutSession ==
    /\ Received
    /\ last.req.method = "POST"
    /\ last.req.path = PathV1
    /\ env.DL_SESSION = Undefined

\* C5 as stated: POST /v1/translate on a deployment without DL_SESSION is answered
\* with the 401 DL_SESSION message whatever the body is, an empty or malformed one
\* included, and reaches neither the cache nor the upstream.
C5_AnyBodyIsNoSession ==
    V1WithoutSession
    => /\ last.k = "response"
       /\ IsNoSessionAnswer(last.response)
       /\ last.trace.cacheReads = 0 /\ last.trace.cachePuts = 0
       /\ last.trace.upstreamCalls = 0

\* C5, amended: POST /v1/translate on a deployment without DL_SESSION never calls
\* deeplxTranslate, the cache or the upstream.  Once the request has passed the
\* shared-secret check, a body that is a JSON object is answered with the 401
\* DL_SESSION message whatever its fields are; an empty or malformed body is
\* answered 400 "Invalid JSON in request body", and the body null 500.
C5_ObjectBodyIsNoSession ==
    V1WithoutSession
    => /\ last.k = "response"
       /\ ~last.trace.called
       /\ last.trace.cacheReads = 0 /\ last.trace.cachePuts = 0
       /\ last.trace.upstreamCalls = 0
       /\ (env.TOKEN = Undefined \/ PresentsSecret(last.req)) =>
            /\ last.req.body.kind = "object" => IsNoSessionAnswer(last.response)
            /\ last.req.body.kind \in {"empty", "badjson"} =>
                    last.response =
                        Resp(400, [code |-> 400, message |-> "Invalid JSON in request body"])
            /\ last.req.body.kind = "null" => last.response.status = 500

\* A complete, well-formed translation request is turned away for want of DL_SESSION.
C5_Witness ==
    /\ V1WithoutSession
    /\ last.req.body.kind = "object"
    /\ last.req.body.text = TStr("hi")
    /\ last.req.body.target_lang = "fr"
    /\ last.req.body.cache = "true"
    /\ IsNoSessionAnswer(last.response)

\* The routes of the interface table.
IsDocumentedRoute(r) ==
    \/ r.method = "OPTIONS"
    \/ (r.method = "GET" /\ r.path = PathRoot)
    \/ (r.method = "POST" /\ r.path \in TranslatePaths)

IsNotFound(response) ==
    response = Resp(404, [code |-> 404, message |-> "Not Found"])

\* C6: a request that matches no documented route is answered 404
\* {code: 404, message: "Not Found"} and deeplxTranslate is not called for it; a
\* request that matches a translate route is never answered with that 404.
C6_UnmatchedIs404 ==
    /\ (Received /\ ~IsDocumentedRoute(last.req))
        => (last.k = "response" /\ IsNotFound(last.response) /\ ~last.trace.called)
    /\ (last # None /\ last.k = "response"
            /\ last.req.method = "POST" /\ last.req.path \in TranslatePaths)
        => ~IsNotFound(last.response)

\* C7: GET / needs no authentication: it is answered 200 with a body that holds
\* code 200 and a message, whether or not a shared secret is configured and whether
\* or not the request carries a token.
C7_RootNeedsNoAuth ==
    (Received /\ last.req.method = "GET" /\ last.req.path = PathRoot)
    => /\ last.response.status = 200
       /\ {"code", "message"} \subseteq DOMAIN last.response.body
       /\ last.response.body.code = 200

\* deeplxTranslate was called for a POST /v1/translate and got as far as its cache
\* policy: the text is not empty and a target language is given.
V1Call(l) ==
    /\ l.req.method = "POST"
    /\ l.req.path = PathV1
    /\ l.trace.called
    /\ l.req.body.text \notin {TUndef, TStr("")}
    /\ l.req.body.target_lang # Undefined

\* C4 as stated: POST /v1/translate with no cache field in the body neither reads
\* nor writes the response cache, with or without a shared secret.
C4_V1DefaultsToNoCache ==
    (last # None /\ V1Call(last) /\ last.req.body.cache = Undefined)
    => (last.trace.cacheReads = 0 /\ last.trace.cachePuts = 0)

\* The cache policy of every endpoint: the body's cache field when there is one,
\* else on exactly when no shared secret is configured.
PolicyFor(r) == IF r.body.cache = Undefined THEN env.TOKEN = Undefined ELSE r.body.cache = "true"

\* C4, amended: what POST /v1/translate does with the cache follows the policy of
\* the other endpoints: with no cache field it uses the cache exactly when no shared secret
\* is configured, and with a cache field the field decides.  Using the cache is
\* one lookup before the upstream call and one write after a success.
C4_V1FollowsCommonPolicy ==
    (last # None /\ V1Call(last))
    => /\ last.trace.cacheReads = (IF PolicyFor(last.req) THEN 1 ELSE 0)
       /\ last.trace.cachePuts =
            (IF PolicyFor(last.req) /\ Replied /\ last.result.code = 200 THEN 1 ELSE 0)

\* On a deployment without a shared secret, a /v1/translate request with no cache
\* field has looked into the cache, gone upstream and registered a cache write.
C4_Witness ==
    /\ Replied
    /\ V1Call(last)
    /\ env.TOKEN = Undefined
    /\ last.req.body.cache = Undefined
    /\ last.trace.cacheReads = 1
    /\ last.trace.cachePuts = 1

\* deeplxTranslate was called with an empty text: "" in the body, or for the
\* /v2/translate branch an empty array or an array of one empty string.
CalledWithEmptyText(l) ==
    /\ l.trace.called
    /\ \/ l.req.body.text = TStr("")
       \/ (l.ep = "v2" /\ l.req.body.text \in {TArr(<<>>), TArr(<<"">>)})

\* C9: deeplxTranslate called with an empty text returns {code: 400, ...} at once:
\* no cache lookup, no cache write, no upstream call, whatever the language codes,
\* the session and the cache policy are.
C9_EmptyTextIs400 ==
    (last # None /\ CalledWithEmptyText(last))
    => /\ Received
       /\ last.k = "response"
       /\ last.result = [code |-> 400, message |-> "No text to translate."]
       /\ last.trace.cacheReads = 0
       /\ last.trace.cachePuts = 0
       /\ last.trace.upstreamCalls = 0

\* /v2/translate with text [] and caching asked for, while the cache is in use.
C9_Witness ==
    /\ last # None
    /\ CalledWithEmptyText(last)
    /\ last.ep = "v2"
    /\ last.req.body.text = TArr(<<>>)
    /\ last.req.body.cache = "true"
    /\ last.req.body.target_lang = Undefined
    /\ last.result.code = 400

\* The alternatives the upstream gave for an element, in its order.
GivenAlternatives(item) ==
    IF item.hasAlternatives
    THEN [i \in 1..Len(item.alternatives) |-> item.alternatives[i].text]
    ELSE <<>>

\* The upstream's answer holds a first element with a text.
HasText(u) == u.hasTexts /\ u.texts # <<>> /\ u.texts[1].text \notin {Undefined, ""}

\* C8: in src/index.js the outcome of the upstream call decides the result:
\* 429 gives code 429; another status outside 200..299 gives that status as code;
\* a rejected fetch, an unparsable body and an error object give code 500; a
\* missing or empty text list, or a first element without text, gives code 500
\* "no text returned"; anything else gives code 200 with the first element's text
\* as data, the given alternatives in order, the upper-cased target language and
\* cached false.  The response's status is the result's code, and a failure
\* registers no cache write, so that the cache holds successes only.
C8_UpstreamOutcome ==
    /\ (Replied /\ env.impl = "index")
        => LET u == last.upstream
               res == last.result
           IN /\ last.k = "response"
              /\ last.response.status = res.code
              /\ res.code # 200 => last.trace.cachePuts = 0
              /\ CASE u.fault -> res.code = 500
                   [] ~u.fault /\ u.status = 429 -> res.code = 429
                   [] ~u.fault /\ u.status \notin (200..299) \cup {429} -> res.code = u.status
                   [] ~u.fault /\ u.status \in 200..299 /\ (~u.json \/ u.error) ->
                        res.code = 500
                   [] ~u.fault /\ u.status \in 200..299 /\ u.json /\ ~u.error /\ ~HasText(u) ->
                        res = [code |-> 500,
                               message |-> "Translation failed, no text returned."]
                   [] OTHER ->
                        /\ res.code = 200
                        /\ res.data = u.texts[1].text
                        /\ res.alternatives = GivenAlternatives(u.texts[1])
                        /\ res.target_lang = "FR"
                        /\ res.cached = FALSE
    /\ env.impl = "index" => \A x \in cache \cup pending : x.entry.code = 200

\* The upstream answered 200 with a first element that has no text, to a request
\* that asked for caching: the result is the 500 and nothing is written.
C8_Witness ==
    /\ Replied
    /\ env.impl = "index"
    /\ last.call.useCache
    /\ last.upstream.status = 200
    /\ last.upstream.texts # <<>>
    /\ ~HasText(last.upstream)
    /\ last.response.status = 500
    /\ pending = {}

\* The cache policy, the languages and the text of the deeplxTranslate call a
\* request leads to, read off the request itself (ep is the branch it took).
SourceOf(r, ep) ==
    IF ep = "v2" \/ r.body.source_lang \in {Undefined, "auto"} THEN "EN" ELSE "DE"

TextOf(r, ep) ==
    IF ep = "v2" /\ r.body.text = TArr(<<"h", "i">>) THEN "h\ni" ELSE "hi"

KeyOf(r, ep) ==
    "https://deeplx.cache/" \o SourceOf(r, ep) \o "/FR/"
        \o (IF TextOf(r, ep) = "hi" THEN "hi" ELSE "h%0Ai")

\* C10: every cache entry (stored, or handed to the runtime to be stored) is a
\* success record registered by a request with caching enabled, after that
\* request's one upstream call, under the key of that request's normalized source
\* language, normalized target language and text.  A request with caching enabled
\* goes upstream only after a lookup that found nothing under its key, a hit is
\* answered from the entry without an upstream call, and no request makes more than
\* one upstream call.
C10_CacheLifecycle ==
    /\ \A x \in cache \cup pending :
        /\ x.entry.code = 200
        /\ x.entry.cached = FALSE
        /\ PolicyFor(x.by.req)
        /\ x.by.trace.upstreamCalls = 1
        /\ x.by.trace.cachePuts = 1
        /\ x.key = KeyOf(x.by.req, x.by.ep)
        /\ x.entry.target_lang = "FR"
    /\ \A x \in cache, y \in cache : x.key = y.key => x = y
    /\ \A i \in 1..Len(inflight) :
        /\ inflight[i].trace.upstreamCalls = 1
        /\ PolicyFor(inflight[i].req) => inflight[i].trace.cacheReads = 1
    /\ last # None =>
        /\ last.trace.upstreamCalls <= 1
        /\ (last.trace.upstreamCalls = 1 /\ PolicyFor(last.req)) => last.trace.cacheReads = 1
        /\ (Received /\ last.k = "fetch" /\ PolicyFor(last.req)) =>
                \A x \in cache : x.key # KeyOf(last.req, last.ep)
        /\ (last.k = "response" /\ last.result.code = 200 /\ last.result.cached) =>
                /\ Received
                /\ PolicyFor(last.req)
                /\ last.trace.upstreamCalls = 0
                /\ \E x \in cache :
                    /\ x.key = KeyOf(last.req, last.ep)
                    /\ last.result = [x.entry EXCEPT !.cached = TRUE]

\* Two requests for the same key were in flight together, both wrote; one write
\* has landed, the other is still outstanding.
C10_Witness ==
    /\ cache # {}
    /\ pending # {}
    /\ \E x \in cache, y \in pending : x.key = y.key /\ x.entry # y.entry

\* C3: a success answer of POST /v1/translate carries method "Pro", whatever
\* requests came before and also when the answer is served from the cache.
C3_V1IsPro ==
    (/\ last # None
     /\ last.k = "response"
     /\ last.req.method = "POST"
     /\ last.req.path = PathV1
     /\ last.response.status = 200
     /\ last.response.body.code = 200)
    => last.response.body.method = "Pro"

\* A call with caching enabled has just arrived for the key of the successful call
\* with caching enabled that was answered immediately before it.
SecondCall ==
    /\ Received
    /\ last.after.k = "call"
    /\ last.call.useCache
    /\ last.call.cacheKey = last.after.call.cacheKey

\* The second call is answered from the cache with what the first call returned.
ServedFromCache ==
    /\ last.k = "response"
    /\ last.result.code = 200
    /\ last.result.cached = TRUE
    /\ last.result.data = last.after.result.data
    /\ last.result.alternatives = last.after.result.alternatives
    /\ last.result.source_lang = last.after.result.source_lang
    /\ last.trace.upstreamCalls = 0

FirstCallStored ==
    \E x \in cache :
        /\ x.key = last.after.call.cacheKey
        /\ x.entry = [last.after.result EXCEPT !.cached = FALSE]

====
